---- MODULE Spec2Model ----
(***************************************************************************)
(* Wallet data service: address resolution, the paginated transfer and NFT *)
(* streams of WalletService, and the route handlers that turn the batch    *)
(* sequences into server-sent events or one combined object.               *)
(***************************************************************************)
EXTENDS Integers, Sequences, FiniteSets, TLC

(* ------------------------------ bounds --------------------------------- *)
\* largest page the unscripted upstream returns
MaxPageLen == 2
\* number of pages after which the unscripted upstream stops returning a cursor
MaxPages == 2
\* largest max_transfers a request carries
MaxCap == 2
\* longest transfer list posted for statistics
MaxTransfers == 3

(* --------------------------- program constants ------------------------- *)
None == 0
PageSizeMin == 1
PageSizeMax == 100
\* stop_after_attempt(3), wait_fixed(2)
MaxAttempts == 3
WaitSeconds == 2

Directions == {"from", "to", "both"}

(* ------------------------------ addresses ------------------------------ *)
\* A textual input.  kind "hex": 40 hex digits of account acct, with or
\* without the 0x prefix, in one of four casings ("ck" = the EIP-55 casing of
\* that account, "bad" = mixed case that is not the EIP-55 casing).
\* kind "name": anything that is not 40 hex digits (an ENS name).
HexInputs ==
    { [kind |-> "hex", acct |-> 1, prefix |-> TRUE, casing |-> "ck"],
      [kind |-> "hex", acct |-> 1, prefix |-> FALSE, casing |-> "lower"],
      [kind |-> "hex", acct |-> 1, prefix |-> TRUE, casing |-> "bad"] }
NameInputs == { [kind |-> "name", acct |-> 0, prefix |-> FALSE, casing |-> "lower"] }
Inputs == HexInputs \cup NameInputs

\* what w3.ens.address(name) does: returns an address, returns None, raises
EnsOutcomes ==
    { [kind |-> "addr", val |-> [kind |-> "hex", acct |-> 2, prefix |-> TRUE, casing |-> "lower"]],
      [kind |-> "none", val |-> None],
      [kind |-> "raise", val |-> None] }

NoRecord == [kind |-> "none", val |-> None]

\* eth_utils.is_address: a hex address in any casing; builds of eth_utils
\* before 2.0 (strict) also reject mixed case that fails the checksum
is_address(s, strict) ==
    /\ s.kind = "hex"
    /\ (strict => s.casing # "bad")

\* eth_utils.to_checksum_address: normalise (lower case, 0x prefix), then
\* apply the EIP-55 casing of the account
to_checksum_address(s) ==
    [kind |-> "hex", acct |-> s.acct, prefix |-> TRUE, casing |-> "ck"]

ValueError(input) == [exc |-> "ValueError", text |-> "Invalid address or ENS name", arg |-> input]

\* the name service is asked first, whatever the input
resolve_name_first(input_str, ens, strict) ==
    IF ens.kind = "addr"
    THEN [ok |-> TRUE, val |-> to_checksum_address(ens.val), lookups |-> 1, err |-> None]
    ELSE IF is_address(input_str, strict)
         THEN [ok |-> TRUE, val |-> to_checksum_address(input_str), lookups |-> 1, err |-> None]
         ELSE [ok |-> FALSE, val |-> None, lookups |-> 1, err |-> ValueError(input_str)]

\* the lookup's exception is let through
resolve_address_uncaught(input_str, ens, strict) ==
    IF is_address(input_str, strict)
    THEN [ok |-> TRUE, val |-> to_checksum_address(input_str), lookups |-> 0, err |-> None]
    ELSE IF ens.kind = "addr"
         THEN [ok |-> TRUE, val |-> to_checksum_address(ens.val), lookups |-> 1, err |-> None]
         ELSE [ok |-> FALSE, val |-> None, lookups |-> 1,
               err |-> IF ens.kind = "raise"
                       THEN [exc |-> "Exception", text |-> "name service", arg |-> input_str]
                       ELSE ValueError(input_str)]

\* WalletService.resolve_address; ens is the outcome the name service would give
resolve_address(input_str, ens, strict) ==
    IF is_address(input_str, strict)
    THEN [ok |-> TRUE, val |-> to_checksum_address(input_str), lookups |-> 0, err |-> None]
    ELSE IF ens.kind = "addr"
         THEN [ok |-> TRUE, val |-> to_checksum_address(ens.val), lookups |-> 1, err |-> None]
         ELSE [ok |-> FALSE, val |-> None, lookups |-> 1, err |-> ValueError(input_str)]


(* -------------------------------- state -------------------------------- *)
VARIABLES
    req,            \* the request being served (path and query parameters)
    pc,             \* where the handler / generator stands
    status,         \* HTTP status of the response (0: none yet)
    detail,         \* detail of the HTTPException, None if none
    resolved,       \* resolved_address
    ensLookups,     \* name-service lookups made for this request
    dir,            \* the loop the generator is in: "from", "to", "nft"
    page_key,       \* local page_key
    page,           \* local page
    from_total,     \* local from_total
    to_total,       \* local to_total
    total_count,    \* local total_count of stream_nfts
    response,       \* local response / data: the page last returned
    transfers,      \* local transfers / nfts: the (truncated) records of that page
    events,         \* server-sent events delivered to the client
    all_transfers,  \* local all_transfers of get_wallet_full_data
    all_nfts,       \* local all_nfts of get_wallet_full_data
    body,           \* JSON body of a non-streaming response
    calls,          \* upstream data requests issued for this request
    served,         \* the provider's pages materialised so far, per direction
    script,         \* how the provider pages its data
    strict,         \* whether the installed eth_utils checks mixed-case checksums
    ensAnswer,      \* what the name service does for the address input
    streams,        \* the frames of the stream calls that run side by side
    nl,             \* NLQueryService.answer_user_question and its route
    gen             \* lib/nl_to_sql.generate_sql_from_question under its retry

vars == << req, pc, status, detail, resolved, ensLookups, dir, page_key, page,
           from_total, to_total, total_count, response, transfers, events,
           all_transfers, all_nfts, body, calls, served, script, strict, ensAnswer,
           streams, nl, gen >>

Streaming == {"transfers", "nfts"}
Endpoints == {"transfers", "nfts", "tokens", "full"}
DirectionInputs == Directions \cup {"sideways"}
Caps == 0 .. MaxCap
PageSizeInputs == {PageSizeMin - 1, PageSizeMin, PageSizeMax, PageSizeMax + 1}
Scripts == {"any", "scenario"}
StreamIds == {1, 2}

NoReq == [endpoint |-> "none", address |-> None, direction |-> "both",
          max_transfers |-> 0, include_nft |-> TRUE, page_size |-> PageSizeMax]
NoResponse == [items |-> << >>, pageKey |-> None, totalCount |-> 0]
NoPages == [from |-> << >>, to |-> << >>, nft |-> << >>]

\* the state as one record, so that each step of the code is a function on it
Cur ==
    [req |-> req, pc |-> pc, status |-> status, detail |-> detail,
     resolved |-> resolved, ensLookups |-> ensLookups, dir |-> dir,
     page_key |-> page_key, page |-> page, from_total |-> from_total,
     to_total |-> to_total, total_count |-> total_count, response |-> response,
     transfers |-> transfers, events |-> events, all_transfers |-> all_transfers,
     all_nfts |-> all_nfts, body |-> body, calls |-> calls, served |-> served]

Fresh ==
    [req |-> NoReq, pc |-> "idle", status |-> 0, detail |-> None,
     resolved |-> None, ensLookups |-> 0, dir |-> "none",
     page_key |-> None, page |-> 0, from_total |-> 0,
     to_total |-> 0, total_count |-> 0, response |-> NoResponse,
     transfers |-> << >>, events |-> << >>, all_transfers |-> << >>,
     all_nfts |-> << >>, body |-> None, calls |-> << >>, served |-> NoPages]

Install(s) ==
    /\ req' = s.req /\ pc' = s.pc /\ status' = s.status /\ detail' = s.detail
    /\ resolved' = s.resolved /\ ensLookups' = s.ensLookups /\ dir' = s.dir
    /\ page_key' = s.page_key /\ page' = s.page /\ from_total' = s.from_total
    /\ to_total' = s.to_total /\ total_count' = s.total_count
    /\ response' = s.response /\ transfers' = s.transfers /\ events' = s.events
    /\ all_transfers' = s.all_transfers /\ all_nfts' = s.all_nfts
    /\ body' = s.body /\ calls' = s.calls /\ served' = s.served

\* no stream call is running on the service instance
NoStreams == [i \in StreamIds |-> Fresh]

\* JSON null / Python None where the other values are texts
Null == "null"
NoError == [text |-> Null, arg |-> Null]
NoResult == [success |-> FALSE, question |-> Null, sql_query |-> Null,
             result |-> Null, answer |-> Null, error |-> NoError]

\* no question is being answered
NoQuery ==
    [pc |-> "idle", question |-> Null, sql_query |-> Null, sql_result |-> Null,
     answer |-> Null, steps |-> << >>, result |-> NoResult, raised |-> FALSE,
     status |-> 0]

\* generate_sql_from_question has not been called
NoGen ==
    [pc |-> "idle", question |-> Null, attempt_number |-> 0, outcomes |-> << >>,
     slept |-> 0, value |-> Null, exc |-> Null, timeout_is_exception |-> TRUE]

\* nothing has been requested yet
Quiescent ==
    /\ req = NoReq /\ pc = "idle" /\ status = 0 /\ detail = None
    /\ resolved = None /\ ensLookups = 0 /\ dir = "none"
    /\ page_key = None /\ page = 0 /\ from_total = 0 /\ to_total = 0
    /\ total_count = 0 /\ response = NoResponse /\ transfers = << >>
    /\ events = << >> /\ all_transfers = << >> /\ all_nfts = << >>
    /\ body = None /\ calls = << >> /\ served = NoPages
    /\ strict = FALSE
    /\ ensAnswer = NoRecord
    /\ streams = NoStreams
    /\ nl = NoQuery
    /\ gen = NoGen

Init == Quiescent /\ script \in Scripts


(* ------------------------------ helpers -------------------------------- *)
Min(a, b) == IF a < b THEN a ELSE b

\* seq[-n:] in place of seq[:n]
TakeLast(seq, n) == SubSeq(seq, Len(seq) - Min(n, Len(seq)) + 1, Len(seq))

\* Python's seq[:n] for n >= 0
Take(seq, n) == SubSeq(seq, 1, Min(n, Len(seq)))

RECURSIVE Flatten(_)
Flatten(pages) ==
    IF pages = << >> THEN << >> ELSE Head(pages).items \o Flatten(Tail(pages))

RECURSIVE SumCounts(_)
SumCounts(bs) == IF bs = << >> THEN 0 ELSE Head(bs).count + SumCounts(Tail(bs))

(* ------------------------- route layer: events ------------------------- *)
\* f"data: {json.dumps(obj)}\n\n"
Sse(obj) == [field |-> "data", json |-> obj]

CompleteMarker(msg) == [type |-> "complete", message |-> msg]
ErrorMarker(msg) == [type |-> "error", message |-> msg]

HttpError(s, code, d) == [s EXCEPT !.status = code, !.detail = d, !.pc = "done"]

(* ------------------------ derived statistics --------------------------- *)
\* str.lower() of an address
Lower(a) == [a EXCEPT !.casing = "lower"]

\* the addresses are compared as written
SameAddressAsWritten(a, b) == a = b

\* case-insensitive comparison of two addresses
SameAddress(a, b) == Lower(a) = Lower(b)

\* the decimal texts the model knows, with the numbers they denote
Decimals == ("1" :> 1) @@ ("2" :> 2) @@ ("5" :> 5)

\* parsing a value as a decimal number: the number, or a failure
ParseValue(v) ==
    IF v \in DOMAIN Decimals
    THEN [ok |-> TRUE, n |-> Decimals[v]]
    ELSE [ok |-> FALSE, n |-> 0]

\* a native-currency transfer (a provider record the model keeps opaque has
\* no category)
IsNative(t) == "category" \in DOMAIN t /\ t.category = "external"

NoTotals == [totalIn |-> 0, totalOut |-> 0, raised |-> FALSE]

Add(acc, address, t, n) ==
    [acc EXCEPT !.totalIn = @ + (IF SameAddress(t.to, address) THEN n ELSE 0),
                !.totalOut = @ + (IF SameAddress(t.from, address) THEN n ELSE 0)]

\* a value that does not parse ends the pass with an exception
TallyUnguarded(acc, address, t) ==
    LET v == ParseValue(t.value)
    IN  IF v.ok THEN Add(acc, address, t, v.n) ELSE [acc EXCEPT !.raised = TRUE]

\* one native-currency transfer of the pass: a value that does not parse is
\* skipped silently
Tally(acc, address, t) ==
    LET v == ParseValue(t.value)
    IN  IF v.ok THEN Add(acc, address, t, v.n) ELSE acc

RECURSIVE Aggregate(_, _, _)
Aggregate(acc, address, ts) ==
    IF ts = << >> \/ acc.raised THEN acc
    ELSE Aggregate(Tally(acc, address, Head(ts)), address, Tail(ts))

\* get_derived_stats is called by the routes but defined outside the files at
\* hand: one linear pass over the transfers
get_derived_stats(address, ts) ==
    LET acc == Aggregate(NoTotals, address, SelectSeq(ts, IsNative))
    IN  [totalIn |-> acc.totalIn, totalOut |-> acc.totalOut,
         net |-> acc.totalIn - acc.totalOut, totalTransfers |-> Len(ts),
         raised |-> acc.raised]

StatsFailure == [text |-> "invalid value"]

\* get_wallet_full_data, lines 240-257: the combined object
FullReturn(s, nfts) ==
    LET derived_stats == get_derived_stats(s.resolved, s.all_transfers)
    IN  IF derived_stats.raised
        THEN HttpError(s, 500, [text |-> "Failed to fetch wallet data",
                                arg |-> StatsFailure])
        ELSE [s EXCEPT !.status = 200, !.pc = "done",
                       !.body = [metadata |-> "metadata", transfers |-> s.all_transfers,
                                 tokenBalances |-> "balances", nfts |-> nfts,
                                 derivedStats |-> derived_stats]]

TokenRequest(s) == [api |-> "tokenBalances", direction |-> "none", pageKey |-> None,
                    category |-> << >>, address |-> s.resolved]
MetadataRequest(s) == [api |-> "metadata", direction |-> "none", pageKey |-> None,
                       category |-> << >>, address |-> s.resolved]

\* the consumer's "async for" receives a batch
Deliver(s, batch) ==
    IF s.req.endpoint \in Streaming
    THEN [s EXCEPT !.events = Append(@, Sse(batch)), !.pc = "yield"]
    ELSE IF s.dir = "nft"
         THEN [s EXCEPT !.all_nfts = @ \o batch.data, !.pc = "yield"]
         ELSE [s EXCEPT !.all_transfers = @ \o batch.data, !.pc = "yield"]

\* get_wallet_full_data goes on after a generator has ended: the generator's
\* frame is gone, and so are the cursors into the provider's pages
Dropped(s) ==
    [s EXCEPT !.page_key = None, !.page = 0, !.from_total = 0, !.to_total = 0,
              !.total_count = 0, !.response = NoResponse, !.transfers = << >>,
              !.served = NoPages]

\* the stream ends without its completion marker
StreamEndedSilently(s) ==
    IF s.req.endpoint \in Streaming THEN [s EXCEPT !.pc = "done"]
    ELSE IF s.dir = "nft"
         THEN FullReturn(Dropped(s), [ownedNfts |-> s.all_nfts, totalCount |-> Len(s.all_nfts)])
         ELSE [Dropped(s) EXCEPT !.calls = Append(@, TokenRequest(s)), !.pc = "tokens"]

\* the consumer's "async for" ends: the generator is exhausted
StreamEnded(s) ==
    CASE s.req.endpoint = "transfers" ->
           [s EXCEPT !.events = Append(@, Sse(CompleteMarker("Transfer fetch complete"))),
                     !.pc = "done"]
      [] s.req.endpoint = "nfts" ->
           [s EXCEPT !.events = Append(@, Sse(CompleteMarker("NFT fetch complete"))),
                     !.pc = "done"]
      [] OTHER ->
           IF s.dir = "nft"
           THEN FullReturn(Dropped(s), [ownedNfts |-> s.all_nfts, totalCount |-> Len(s.all_nfts)])
           ELSE [Dropped(s) EXCEPT !.calls = Append(@, TokenRequest(s)), !.pc = "tokens"]

\* the failure is raised out of the handler instead of being reported in-band
StreamRaisedOutward(s, e) ==
    HttpError([s EXCEPT !.events = << >>], 500, [text |-> "Failed to fetch wallet data", arg |-> e])

\* the failed request is sent once more before the failure is reported
StreamRaisedAfterRetry(s, e) ==
    IF s.req.endpoint \in Streaming
    THEN [s EXCEPT !.calls = Append(@, s.calls[Len(s.calls)]),
                   !.events = Append(@, Sse(ErrorMarker(e))), !.pc = "done"]
    ELSE HttpError(s, 500, [text |-> "Failed to fetch wallet data", arg |-> e])

\* a failed transfer aggregation is answered with what was collected so far
StreamRaisedPartial(s, e) ==
    IF s.req.endpoint \in Streaming
    THEN [s EXCEPT !.events = Append(@, Sse(ErrorMarker(e))), !.pc = "done"]
    ELSE [s EXCEPT !.status = 200, !.pc = "done",
                   !.body = [metadata |-> "metadata", transfers |-> s.all_transfers]]

\* the generator raises into the consumer's "async for"
StreamRaised(s, e) ==
    IF s.req.endpoint \in Streaming
    THEN [s EXCEPT !.events = Append(@, Sse(ErrorMarker(e))), !.pc = "done"]
    ELSE HttpError(s, 500, [text |-> "Failed to fetch wallet data", arg |-> e])


(* ---------------------- WalletService.stream_transfers ------------------ *)
\* the NFT categories are added whatever include_nft says
CategoriesAlwaysNft(include_nft) ==
    << "external", "internal", "erc20", "erc721", "erc1155" >>

\* line 96: "category or [...]", an empty list is replaced by all five
CategoryParam(category) ==
    IF category = << >>
    THEN << "external", "internal", "erc20", "erc721", "erc1155" >>
    ELSE category

Categories(include_nft) ==
    << "external", "internal", "erc20" >> \o
        (IF include_nft THEN << "erc721", "erc1155" >> ELSE << >>)

TransferRequest(s) ==
    [api |-> "getAssetTransfers", direction |-> s.dir, pageKey |-> s.page_key,
     category |-> CategoryParam(Categories(s.req.include_nft)),
     address |-> s.resolved]

\* the second loop goes on from the page counter of the first
EnterLoopSharedPage(s, d) ==
    [s EXCEPT !.dir = d, !.page_key = None,
              !.from_total = IF d = "from" THEN 0 ELSE @,
              !.to_total = IF d = "to" THEN 0 ELSE @,
              !.pc = "loop"]

\* the second loop inherits the cursor and the running total of the first
EnterLoopInherits(s, d) ==
    [s EXCEPT !.dir = d, !.page = 0,
              !.to_total = IF d = "to" THEN s.from_total ELSE @,
              !.pc = "loop"]

\* lines 157-159 and 202-204: each loop starts from its own cursor, page and total
EnterLoop(s, d) ==
    [s EXCEPT !.dir = d, !.page_key = None, !.page = 0,
              !.from_total = IF d = "from" THEN 0 ELSE @,
              !.to_total = IF d = "to" THEN 0 ELSE @,
              !.pc = "loop"]

\* the "to" loop is entered only after a "from" part that delivered a batch
AfterFromIfDelivered(s) ==
    IF s.req.direction = "to" \/ (s.req.direction = "both" /\ s.from_total > 0)
    THEN EnterLoop(s, "to")
    ELSE StreamEnded(s)

\* line 201: the "to" loop follows the "from" part
AfterFrom(s) ==
    IF s.req.direction \in {"to", "both"} THEN EnterLoop(s, "to") ELSE StreamEnded(s)

\* line 156
StartTransfers(s) ==
    IF s.req.direction \in {"from", "both"} THEN EnterLoop(s, "from") ELSE AfterFrom(s)

\* a "break" of the current while loop
BreakLoop(s) == IF s.dir = "from" THEN AfterFrom(s) ELSE StreamEnded(s)

Total(s) == IF s.dir = "from" THEN s.from_total ELSE s.to_total

\* the cap test without its "max_transfers > 0"
LoopTopZeroIsCap(s) ==
    IF Total(s) >= s.req.max_transfers
    THEN BreakLoop(s)
    ELSE [s EXCEPT !.page = @ + 1, !.calls = Append(@, TransferRequest(s)),
                   !.pc = "await"]

\* a reached cap sends the loop round again instead of ending it
LoopTopSpins(s) ==
    IF s.req.max_transfers > 0 /\ Total(s) >= s.req.max_transfers
    THEN s
    ELSE [s EXCEPT !.page = @ + 1, !.calls = Append(@, TransferRequest(s)),
                   !.pc = "await"]

\* the loop fetches without testing the cap first
LoopTopUntested(s) ==
    [s EXCEPT !.page = @ + 1, !.calls = Append(@, TransferRequest(s)), !.pc = "await"]

\* lines 162-175 (206-219): cap test, page += 1, the request goes out
LoopTop(s) ==
    IF s.req.max_transfers > 0 /\ Total(s) >= s.req.max_transfers
    THEN BreakLoop(s)
    ELSE [s EXCEPT !.page = @ + 1, !.calls = Append(@, TransferRequest(s)),
                   !.pc = "await"]

\* the page is passed on uncut
Untruncated(ts, max_transfers, total) == ts

\* lines 179-181 (223-225)
Truncate(ts, max_transfers, total) ==
    IF max_transfers > 0 THEN Take(ts, max_transfers - total) ELSE ts

\* the labels of the two loops exchanged
TransferBatchMislabelled(d, pg, ts, total) ==
    [type |-> IF d = "from" THEN "to_transfers" ELSE "from_transfers",
     page |-> pg, count |-> Len(ts), total |-> total,
     direction |-> IF d = "from" THEN "to" ELSE "from", data |-> ts]

TransferBatch(d, pg, ts, total) ==
    [type |-> IF d = "from" THEN "from_transfers" ELSE "to_transfers",
     page |-> pg, count |-> Len(ts), total |-> total, direction |-> d, data |-> ts]

\* an empty page that carries a cursor does not end the loop
AfterPageSkipsEmpty(s) ==
    LET s1 == [s EXCEPT !.page_key = s.response.pageKey]
    IN  IF s1.page_key = None
        THEN BreakLoop(s1)
        ELSE [s1 EXCEPT !.pc = "loop"]

\* lines 194-198 (238-242): take the cursor, stop or sleep and loop
AfterPage(s) ==
    LET s1 == [s EXCEPT !.page_key = s.response.pageKey]
    IN  IF s1.page_key = None \/ s1.transfers = << >>
        THEN BreakLoop(s1)
        ELSE [s1 EXCEPT !.pc = "loop"]

\* the next page is requested before the batch in hand is handed over
OnPagePrefetching(s, resp) ==
    LET ts == Truncate(resp.items, s.req.max_transfers, Total(s))
        s1 == [s EXCEPT !.response = resp, !.transfers = ts]
    IN  IF ts # << >>
        THEN LET s2 == [s1 EXCEPT !.from_total = IF s.dir = "from" THEN @ + Len(ts) ELSE @,
                                  !.to_total = IF s.dir = "to" THEN @ + Len(ts) ELSE @,
                                  !.calls = IF resp.pageKey # None
                                            THEN Append(@, [TransferRequest(s) EXCEPT
                                                              !.pageKey = resp.pageKey])
                                            ELSE @]
             IN  Deliver(s2, TransferBatch(s.dir, s.page, ts, Total(s2)))
        ELSE AfterPage(s1)

\* lines 177-192 (221-236): the page arrives, is cut to the cap and yielded
OnPage(s, resp) ==
    LET ts == Truncate(resp.items, s.req.max_transfers, Total(s))
        s1 == [s EXCEPT !.response = resp, !.transfers = ts]
    IN  IF ts # << >>
        THEN LET s2 == [s1 EXCEPT !.from_total = IF s.dir = "from" THEN @ + Len(ts) ELSE @,
                                  !.to_total = IF s.dir = "to" THEN @ + Len(ts) ELSE @]
             IN  Deliver(s2, TransferBatch(s.dir, s.page, ts, Total(s2)))
        ELSE AfterPage(s1)

(* ------------------------ WalletService.stream_nfts --------------------- *)
NftRequest(s) ==
    [api |-> "getNFTsForOwner", direction |-> "nft", pageKey |-> s.page_key,
     category |-> << >>, address |-> s.resolved, pageSize |-> s.req.page_size]

\* lines 284-286
EnterNfts(s) ==
    [s EXCEPT !.dir = "nft", !.page_key = None, !.page = 0, !.total_count = 0,
              !.pc = "loop"]

\* lines 293-305
NftLoopTop(s) ==
    [s EXCEPT !.page = @ + 1, !.calls = Append(@, NftRequest(s)), !.pc = "await"]

\* the running total is reported as the size of the collection
NftBatchRunningSize(pg, nfts, total, total_nft_count) ==
    [page |-> pg, count |-> Len(nfts), total |-> total,
     totalCount |-> total, data |-> nfts]

\* lines 318-325
NftBatch(pg, nfts, total, total_nft_count) ==
    [page |-> pg, count |-> Len(nfts), total |-> total,
     totalCount |-> total_nft_count, data |-> nfts]

\* an empty page of NFTs is passed over without a batch, as an empty page of
\* transfers is
NftOnPageSkipsEmpty(s, data) ==
    LET s1 == [s EXCEPT !.response = data, !.transfers = data.items,
                        !.total_count = @ + Len(data.items)]
    IN  IF data.items = << >>
        THEN StreamEnded(s1)
        ELSE Deliver(s1, NftBatch(s.page, data.items, s1.total_count, data.totalCount))

\* lines 314-325
NftOnPage(s, data) ==
    LET s1 == [s EXCEPT !.response = data, !.transfers = data.items,
                        !.total_count = @ + Len(data.items)]
    IN  Deliver(s1, NftBatch(s.page, data.items, s1.total_count, data.totalCount))

\* an empty page that carries a cursor does not end the NFT loop
NftAfterPageSkipsEmpty(s) ==
    LET s1 == [s EXCEPT !.page_key = s.response.pageKey]
    IN  IF s1.page_key = None
        THEN StreamEnded(s1)
        ELSE [s1 EXCEPT !.pc = "loop"]

\* lines 327-331
NftAfterPage(s) ==
    LET s1 == [s EXCEPT !.page_key = s.response.pageKey]
    IN  IF s1.page_key = None \/ s1.transfers = << >>
        THEN StreamEnded(s1)
        ELSE [s1 EXCEPT !.pc = "loop"]

(* ------------------------------ the provider --------------------------- *)
\* a failed call: a non-success status, or status 200 with an in-band error
ProviderFailures ==
    { [status |-> 500, error |-> "provider detail"],
      [status |-> 200, error |-> "provider detail"] }

\* lines 120-126
TransferError(f) ==
    IF f.status # 200
    THEN [text |-> "Alchemy API returned status", status |-> f.status]
    ELSE [text |-> "Alchemy API error", error |-> f.error]

\* lines 306-312 and 332-333
NftError(f) == [text |-> "Failed to fetch NFTs", arg |-> TransferError(f)]

\* lines 261-272
TokenError(f) ==
    [text |-> "Failed to fetch token balances",
     arg |-> IF f.status # 200
             THEN [text |-> "Alchemy API returned status", status |-> f.status,
                   body |-> f.error]
             ELSE [text |-> "Alchemy API error", error |-> f.error]]

MakePage(d, base, n, key, tc) ==
    [items |-> [i \in 1 .. n |-> [hash |-> << d, base + i >>]], pageKey |-> key,
     totalCount |-> tc]

\* the scripted provider: page sizes per direction, a cursor on all but the last
ScenarioSizes == [from |-> << 1000, 1000, 3 >>, to |-> << 5 >>, nft |-> << 100, 100, 50 >>]

\* the collection size the scripted provider reports with every NFT page
ScenarioTotals == [from |-> 0, to |-> 0, nft |-> 250]

ScenarioPage(d, k, base) ==
    LET sizes == ScenarioSizes[d]
    IN  IF k <= Len(sizes)
        THEN MakePage(d, base, sizes[k], IF k < Len(sizes) THEN k ELSE None,
                      ScenarioTotals[d])
        ELSE MakePage(d, base, 0, None, ScenarioTotals[d])

\* a provider with MaxPages pages per direction: full pages and a last page
\* of one record; the collection size reported is the number of records
SteadyPage(d, k, base) ==
    IF k < MaxPages
    THEN MakePage(d, base, MaxPageLen, k, (MaxPages - 1) * MaxPageLen + 1)
    ELSE MakePage(d, base, 1, None, (MaxPages - 1) * MaxPageLen + 1)

\* pages the provider may hold as its k-th page of direction d
NewPages(sc, d, k, base) ==
    IF sc = "scenario"
    THEN { ScenarioPage(d, k, base) }
    ELSE IF sc = "steady"
    THEN { SteadyPage(d, k, base) }
    ELSE { MakePage(d, base, n, IF c THEN k ELSE None,
                    IF d = "nft" THEN base + n + (IF c THEN 1 ELSE 0) ELSE 0) :
             << n, c >> \in { t \in (0 .. MaxPageLen) \X BOOLEAN : t[2] => k < MaxPages } }

\* the page the provider returns for the request last issued: the cursor
\* presented selects the page; a page once returned does not change
Offered(s, sc) ==
    LET k == s.calls[Len(s.calls)].pageKey + 1
        have == s.served[s.dir]
    IN  IF k <= Len(have) THEN { have[k] } ELSE NewPages(sc, s.dir, k, Len(Flatten(have)))

Serve(s, pg) ==
    LET k == s.calls[Len(s.calls)].pageKey + 1
    IN  IF k <= Len(s.served[s.dir]) THEN s
        ELSE [s EXCEPT !.served[s.dir] = Append(@, pg)]


(* ---------------------------- route handlers --------------------------- *)
\* "resolved_address = await wallet_service.resolve_address(address)" under
\* "except ValueError: raise HTTPException(400)"
Resolve(s, ens, st) ==
    LET r == resolve_address(s.req.address, ens, st)
        s1 == [s EXCEPT !.ensLookups = r.lookups]
    IN  IF r.ok THEN [s1 EXCEPT !.resolved = r.val]
        ELSE HttpError(s1, 400, r.err)

\* the handler has raised its HTTPException
Rejected(s) == s.pc = "done"

BadDirection == [text |-> "direction must be 'from', 'to', or 'both'"]
BadPageSize == [text |-> "page_size out of range"]

\* the StreamingResponse is returned and its body generator starts
BeginTransferStream(s) == StartTransfers([s EXCEPT !.status = 200])
BeginNftStream(s) == EnterNfts([s EXCEPT !.status = 200])
CallTokens(s) == [s EXCEPT !.calls = Append(@, TokenRequest(s)), !.pc = "tokens"]
CallMetadata(s) == [s EXCEPT !.calls = Append(@, MetadataRequest(s)), !.pc = "metadata"]

stream_wallet_transfers(s, ens, st) ==
    IF s.req.direction \notin Directions
    THEN HttpError(s, 400, BadDirection)
    ELSE LET s1 == Resolve(s, ens, st)
         IN  IF Rejected(s1) THEN s1 ELSE BeginTransferStream(s1)

stream_wallet_nfts(s, ens, st) ==
    IF s.req.page_size < PageSizeMin \/ s.req.page_size > PageSizeMax
    THEN HttpError(s, 422, BadPageSize)
    ELSE LET s1 == Resolve(s, ens, st)
         IN  IF Rejected(s1) THEN s1 ELSE BeginNftStream(s1)

get_wallet_token_balances(s, ens, st) ==
    LET s1 == Resolve(s, ens, st)
    IN  IF Rejected(s1) THEN s1 ELSE CallTokens(s1)

\* lines 175-194
calculate_derived_stats(s, ens, st) ==
    LET s1 == Resolve(s, ens, st)
    IN  IF Rejected(s1) THEN s1
        ELSE LET stats == get_derived_stats(s1.resolved, s1.transfers)
             IN  IF stats.raised
                 THEN HttpError(s1, 500, [text |-> "Failed to calculate stats",
                                          arg |-> StatsFailure])
                 ELSE [s1 EXCEPT !.status = 200, !.body = stats, !.pc = "done"]

\* the metadata is requested for the raw input, the address resolved afterwards
get_wallet_full_data_unresolved(s, ens, st) ==
    IF s.req.direction \notin Directions
    THEN HttpError(s, 400, BadDirection)
    ELSE CallMetadata([s EXCEPT !.resolved = s.req.address])

get_wallet_full_data(s, ens, st) ==
    IF s.req.direction \notin Directions
    THEN HttpError(s, 400, BadDirection)
    ELSE LET s1 == Resolve(s, ens, st)
         IN  IF Rejected(s1) THEN s1 ELSE CallMetadata(s1)

(* -------------------------------- actions ------------------------------ *)
\* the eth_utils builds that differ on input a (they differ on nothing else)
Builds(a) == IF a.casing = "bad" THEN BOOLEAN ELSE {FALSE}

\* the name service is asked about names only; for a valid address what it
\* would do is immaterial
Lookups(a, st) == IF is_address(a, st) THEN {NoRecord} ELSE EnsOutcomes

Step(s) == Install(s) /\ UNCHANGED << script, strict, ensAnswer, streams, nl, gen >>

Ready == pc = "idle"
InTransferLoop == dir \in {"from", "to"}

Request(endpoint, a, d, m, n, ps) ==
    [Fresh EXCEPT !.req = [endpoint |-> endpoint, address |-> a, direction |-> d,
                           max_transfers |-> m, include_nft |-> n, page_size |-> ps]]

\* a request arrives and runs to the handler's first suspension point
Arrive(s) ==
    /\ Install(s) /\ strict' = s.st /\ ensAnswer' = s.e
    /\ UNCHANGED << script, streams, nl, gen >>

StreamWalletTransfers ==
    /\ Ready
    /\ \E a \in Inputs, d \in DirectionInputs, m \in Caps, n \in BOOLEAN :
         \E st \in Builds(a) : \E e \in Lookups(a, st) :
           Arrive([st |-> st, e |-> e] @@
                  stream_wallet_transfers(
                      Request("transfers", a, d, m, n, PageSizeMax), e, st))

StreamWalletNfts ==
    /\ Ready
    /\ \E a \in Inputs, ps \in PageSizeInputs :
         \E st \in Builds(a) : \E e \in Lookups(a, st) :
           Arrive([st |-> st, e |-> e] @@
                  stream_wallet_nfts(Request("nfts", a, "both", 0, TRUE, ps), e, st))

GetWalletTokenBalances ==
    /\ Ready
    /\ \E a \in Inputs :
         \E st \in Builds(a) : \E e \in Lookups(a, st) :
           Arrive([st |-> st, e |-> e] @@
                  get_wallet_token_balances(
                      Request("tokens", a, "both", 0, TRUE, PageSizeMax), e, st))

GetWalletFullData ==
    /\ Ready
    /\ \E a \in Inputs, d \in DirectionInputs, m \in Caps, n \in BOOLEAN :
         \E st \in Builds(a) : \E e \in Lookups(a, st) :
           Arrive([st |-> st, e |-> e] @@
                  get_wallet_full_data(
                      Request("full", a, d, m, n, PageSizeMax), e, st))

\* get_metadata answers; the handler goes on to collect the transfers
MetadataReturn ==
    /\ pc = "metadata"
    /\ Step(StartTransfers(Cur))

MetadataFail ==
    /\ pc = "metadata"
    /\ \E f \in ProviderFailures :
         Step(HttpError(Cur, 500, [text |-> "Failed to fetch wallet data",
                                      arg |-> TransferError(f)]))

TransfersFetch ==
    /\ pc = "loop" /\ InTransferLoop
    /\ Step(LoopTop(Cur))

TransfersPage ==
    /\ pc = "await" /\ InTransferLoop
    /\ \E pg \in Offered(Cur, script) : Step(OnPage(Serve(Cur, pg), pg))

TransfersFail ==
    /\ pc = "await" /\ InTransferLoop
    /\ \E f \in ProviderFailures : Step(StreamRaised(Cur, TransferError(f)))

TransfersResume ==
    /\ pc = "yield" /\ InTransferLoop
    /\ Step(AfterPage(Cur))

NftFetch ==
    /\ pc = "loop" /\ dir = "nft"
    /\ Step(NftLoopTop(Cur))

NftPage ==
    /\ pc = "await" /\ dir = "nft"
    /\ \E pg \in Offered(Cur, script) : Step(NftOnPage(Serve(Cur, pg), pg))

NftFail ==
    /\ pc = "await" /\ dir = "nft"
    /\ \E f \in ProviderFailures : Step(StreamRaised(Cur, NftError(f)))

NftResume ==
    /\ pc = "yield" /\ dir = "nft"
    /\ Step(NftAfterPage(Cur))

TokensReturn ==
    /\ pc = "tokens"
    /\ Step(IF req.endpoint = "tokens"
               THEN [Cur EXCEPT !.status = 200, !.body = "balances", !.pc = "done"]
               ELSE IF req.include_nft THEN EnterNfts(Cur) ELSE FullReturn(Cur, None))

TokensFail ==
    /\ pc = "tokens"
    /\ \E f \in ProviderFailures :
         Step(HttpError(Cur, 500,
                   [text |-> IF req.endpoint = "tokens"
                             THEN "Failed to fetch token balances"
                             ELSE "Failed to fetch wallet data",
                    arg |-> TokenError(f)]))

\* the client goes away while a stream is suspended: the generator is
\* closed where it stands, no handler of "except Exception" runs
ClientDisconnect ==
    /\ pc \in {"await", "yield"} /\ req.endpoint \in Streaming
    /\ Step([Cur EXCEPT !.pc = "closed"])

Next ==
    \/ StreamWalletTransfers
    \/ StreamWalletNfts
    \/ GetWalletTokenBalances
    \/ GetWalletFullData
    \/ MetadataReturn
    \/ MetadataFail
    \/ TransfersFetch
    \/ TransfersPage
    \/ TransfersFail
    \/ TransfersResume
    \/ NftFetch
    \/ NftPage
    \/ NftFail
    \/ NftResume
    \/ TokensReturn
    \/ TokensFail
    \/ ClientDisconnect

Spec == Init /\ [][Next]_vars


(* ------------- two streams consumed side by side on one instance -------- *)
\* the shared service instance holds no per-stream state: cursor, page
\* counter and totals are locals of the generator call
FrameOnInstance(ss, i) ==
    [ss[i] EXCEPT !.page = IF ss[1].page > ss[2].page THEN ss[1].page ELSE ss[2].page]

Frame(ss, i) == ss[i]

StepTwo(i, s) ==
    /\ streams' = [streams EXCEPT ![i] = s]
    /\ UNCHANGED << req, pc, status, detail, resolved, ensLookups, dir, page_key,
                    page, from_total, to_total, total_count, response, transfers,
                    events, all_transfers, all_nfts, body, calls, served, script,
                    strict, ensAnswer, nl, gen >>

CanonicalInput == [kind |-> "hex", acct |-> 1, prefix |-> TRUE, casing |-> "ck"]
SlotFree(i) == streams[i].pc \in {"idle", "done"}
InLoopOf(s) == IF s.dir = "nft" THEN "nfts" ELSE "transfers"

\* one step of a generator: the code between two suspension points
FetchStep(s) == IF InLoopOf(s) = "transfers" THEN LoopTop(s) ELSE NftLoopTop(s)
PageStep(s, pg) ==
    IF InLoopOf(s) = "transfers" THEN OnPage(Serve(s, pg), pg) ELSE NftOnPage(Serve(s, pg), pg)
ResumeStep(s) == IF InLoopOf(s) = "transfers" THEN AfterPage(s) ELSE NftAfterPage(s)

CallTransfers ==
    \E i \in StreamIds, d \in Directions, m \in Caps :
        /\ SlotFree(i)
        /\ StepTwo(i, stream_wallet_transfers(
                         Request("transfers", CanonicalInput, d, m, TRUE, PageSizeMax),
                         NoRecord, FALSE))

CallNfts ==
    \E i \in StreamIds :
        /\ SlotFree(i)
        /\ StepTwo(i, stream_wallet_nfts(
                         Request("nfts", CanonicalInput, "both", 0, TRUE, PageSizeMax),
                         NoRecord, FALSE))

PullFetch ==
    \E i \in StreamIds :
        /\ streams[i].pc = "loop"
        /\ StepTwo(i, FetchStep(Frame(streams, i)))

PullPage ==
    \E i \in StreamIds :
        /\ streams[i].pc = "await"
        /\ \E pg \in Offered(Frame(streams, i), script) :
             StepTwo(i, PageStep(Frame(streams, i), pg))

PullResume ==
    \E i \in StreamIds :
        /\ streams[i].pc = "yield"
        /\ StepTwo(i, ResumeStep(Frame(streams, i)))

InitTwo == Quiescent /\ script = "steady"

NextTwo ==
    \/ CallTransfers
    \/ CallNfts
    \/ PullFetch
    \/ PullPage
    \/ PullResume

TwoStreams == InitTwo /\ [][NextTwo]_vars


(* ------------------- one transfer stream, run fairly -------------------- *)
\* the transfer stream alone, for a request the handler accepts: the event
\* loop runs a generator that can run, the provider answers or fails every
\* request, and the consumer of the response asks for the next batch or goes
\* away
StreamAccepted ==
    /\ Ready
    /\ \E d \in Directions, m \in Caps, n \in BOOLEAN :
         Arrive([st |-> FALSE, e |-> NoRecord] @@
                stream_wallet_transfers(
                    Request("transfers", CanonicalInput, d, m, n, PageSizeMax),
                    NoRecord, FALSE))

NextTransfers ==
    \/ StreamAccepted
    \/ TransfersFetch
    \/ TransfersPage
    \/ TransfersFail
    \/ TransfersResume
    \/ ClientDisconnect

\* where the generator stands: every step of a running stream changes it
position == << pc, dir >>

FairTransfers ==
    /\ Init /\ [][NextTransfers]_vars
    /\ WF_position(TransfersFetch)
    /\ WF_position(TransfersPage \/ TransfersFail)
    /\ WF_position(TransfersResume \/ ClientDisconnect)


(* ------------------------------ observers ------------------------------ *)
IsBatch(e) == "data" \in DOMAIN e.json
IsMarker(e) == "message" \in DOMAIN e.json
IsFromBatch(e) == IsBatch(e) /\ "direction" \in DOMAIN e.json /\ e.json.direction = "from"
IsToBatch(e) == IsBatch(e) /\ "direction" \in DOMAIN e.json /\ e.json.direction = "to"
IsError(e) == IsMarker(e) /\ e.json.type = "error"
IsComplete(e) == IsMarker(e) /\ e.json.type = "complete"

RECURSIVE Jsons(_)
Jsons(es) == IF es = << >> THEN << >> ELSE << Head(es).json >> \o Jsons(Tail(es))

RECURSIVE DataOf(_)
DataOf(bs) == IF bs = << >> THEN << >> ELSE Head(bs).data \o DataOf(Tail(bs))

\* the batches of one direction, in the order the client received them
BatchesOf(d) ==
    Jsons(IF d = "from" THEN SelectSeq(events, IsFromBatch) ELSE SelectSeq(events, IsToBatch))

\* every record the provider has returned for direction d, in cursor order
Upstream(d) == Flatten(served[d])

OnTransferStream == req.endpoint = "transfers" /\ status = 200

(* ------------------------------- claims -------------------------------- *)

\* C1: with direction "both", no batch of direction "to" is delivered before
\* a batch of direction "from": every "from" batch precedes every "to" batch.
FromBeforeTo ==
    (OnTransferStream /\ req.direction = "both") =>
        \A i, j \in 1 .. Len(events) :
            (i < j /\ IsToBatch(events[i])) => ~IsFromBatch(events[j])

FromThenToDelivered ==
    /\ OnTransferStream /\ req.direction = "both"
    /\ \E i, j \in 1 .. Len(events) :
         i < j /\ IsFromBatch(events[i]) /\ IsToBatch(events[j])

\* C2: with a cap C > 0, at every point of a run the counts of the batches
\* delivered so far for one direction sum to at most C, and that sum is the
\* direction's running total; for "from" and for "to" separately.
CountsWithinCap ==
    (OnTransferStream /\ req.max_transfers > 0) =>
        /\ SumCounts(BatchesOf("from")) <= req.max_transfers
        /\ SumCounts(BatchesOf("to")) <= req.max_transfers
        /\ from_total = SumCounts(BatchesOf("from"))
        /\ to_total = SumCounts(BatchesOf("to"))

CapCutAPage ==
    /\ OnTransferStream /\ req.max_transfers > 0
    /\ SumCounts(BatchesOf("from")) = req.max_transfers
    /\ Len(Upstream("from")) > req.max_transfers
    /\ SumCounts(BatchesOf("to")) = req.max_transfers
    /\ Len(Upstream("to")) > req.max_transfers

\* C3: within one direction the data of the delivered batches, concatenated
\* in delivery order, is the concatenation of the pages the provider returned,
\* in cursor order, cut to its first C records when the cap C > 0 and uncut
\* when C = 0: nothing reordered, dropped or duplicated.
DataIsUpstreamPrefix ==
    OnTransferStream =>
        \A d \in {"from", "to"} :
            DataOf(BatchesOf(d)) =
                IF req.max_transfers > 0
                THEN Take(Upstream(d), req.max_transfers)
                ELSE Upstream(d)

TwoPagesThenCut ==
    /\ OnTransferStream /\ req.max_transfers > 0
    /\ Len(BatchesOf("from")) >= 2
    /\ Len(Upstream("from")) > req.max_transfers
    /\ Len(DataOf(BatchesOf("from"))) = req.max_transfers


\* no upstream call of this request has failed: every request issued to the
\* paginated APIs has been answered with a page
NoCallFailed == Len(calls) = Len(served.from) + Len(served.to) + Len(served.nft)

\* a step in which the pending upstream call of a streaming endpoint fails
UpstreamFailsInStream ==
    /\ pc = "await" /\ req.endpoint \in Streaming
    /\ pc' = "done" /\ served' = served

\* C4: when an upstream call fails during a transfer or NFT stream after N
\* batches were delivered, the client has those N data events unchanged,
\* followed by one event of type "error"; the response is not turned into an
\* HTTP error, and no event follows the error event.
FailureIsTerminalEvent ==
    /\ [][UpstreamFailsInStream =>
            /\ \A i \in 1 .. Len(events) : IsBatch(events[i])
            /\ Len(events') = Len(events) + 1
            /\ SubSeq(events', 1, Len(events)) = events
            /\ IsError(events'[Len(events')])
            /\ status' = 200 /\ detail' = None]_vars
    /\ [](\A i \in 1 .. Len(events) :
             IsError(events[i]) => (i = Len(events) /\ pc = "done"))

ErrorAfterTwoBatches ==
    /\ req.endpoint \in Streaming /\ pc = "done"
    /\ Len(events) = 3
    /\ IsBatch(events[1]) /\ IsBatch(events[2]) /\ IsError(events[3])

\* C5: a streaming response that finishes has exactly one terminal marker,
\* as its last event: "complete" if and only if the batch sequence ended with
\* no failed call, "error" otherwise; a marker is never followed by an event.
OneTerminalMarker ==
    /\ (req.endpoint \in Streaming /\ status = 200 /\ pc = "done") =>
          /\ events # << >>
          /\ IsMarker(events[Len(events)])
          /\ IsComplete(events[Len(events)]) <=> NoCallFailed
          /\ IsError(events[Len(events)]) <=> ~NoCallFailed
    /\ \A i \in 1 .. Len(events) :
          IsMarker(events[i]) => (i = Len(events) /\ pc = "done")

CompleteAfterBatches ==
    /\ req.endpoint \in Streaming /\ status = 200 /\ pc = "done"
    /\ Len(events) >= 3
    /\ IsComplete(events[Len(events)])

\* what an event says, without its records
Outline(e) ==
    IF IsMarker(e) THEN << e.json.type >>
    ELSE << e.json.direction, e.json.page, e.json.count, e.json.total, Len(e.json.data) >>

ScenarioRun ==
    /\ script = "scenario" /\ OnTransferStream
    /\ req.max_transfers = 0 /\ req.direction = "both"
    /\ pc = "done" /\ NoCallFailed

\* C6: max_transfers = 0, direction "both", the provider serving "from" as
\* pages of 1000, 1000 (with cursor) and 3 (no cursor) and "to" as one page of
\* 5 (no cursor): the events are the "from" batches 1000, 1000, 3 (pages 1, 2,
\* 3, totals 1000, 2000, 2003), the "to" batch 5 (page 1, total 5), then the
\* completion marker.
ScenarioOutcome ==
    ScenarioRun =>
        /\ Len(events) = 5
        /\ [i \in 1 .. 5 |-> Outline(events[i])] =
             << << "from", 1, 1000, 1000, 1000 >>,
                << "from", 2, 1000, 2000, 1000 >>,
                << "from", 3, 3, 2003, 3 >>,
                << "to", 1, 5, 5, 5 >>,
                << "complete" >> >>

ScenarioCompleted == ScenarioRun /\ IsComplete(events[Len(events)])


\* the address input is neither a valid address nor a name that resolves
Unresolvable == ~is_address(req.address, strict) /\ ensAnswer.kind # "addr"

\* the request's other parameters pass the handler's checks, so that the
\* handler comes to resolve the address
OtherParametersValid ==
    /\ req.endpoint \in Endpoints
    /\ req.direction \in Directions
    /\ req.page_size >= PageSizeMin /\ req.page_size <= PageSizeMax

IsCanonical(a) == a.kind = "hex" /\ a.prefix /\ a.casing = "ck"

\* C8: for every valid address x, resolving the result of resolve_address(x)
\* gives that result again; no name-service lookup is made for a valid
\* address, and an address already canonical comes back unchanged.
ResolveIdempotent ==
    (OtherParametersValid /\ is_address(req.address, strict)) =>
        /\ ensLookups = 0
        /\ IsCanonical(resolved)
        /\ resolved.acct = req.address.acct
        /\ \A e \in EnsOutcomes :
             resolve_address(resolved, e, strict) =
                 [ok |-> TRUE, val |-> resolved, lookups |-> 0, err |-> None]
        /\ IsCanonical(req.address) => resolved = req.address

NonCanonicalResolved ==
    /\ OtherParametersValid /\ is_address(req.address, strict)
    /\ ~IsCanonical(req.address) /\ IsCanonical(resolved)

\* C9: for an input that is not a valid address, when the name-service lookup
\* returns nothing or raises, resolve_address fails with the invalid-address
\* error carrying the input; the lookup's own exception does not come out.
LookupFailureIsInvalidAddress ==
    (OtherParametersValid /\ ~is_address(req.address, strict)
       /\ ensAnswer.kind \in {"none", "raise"}) =>
        /\ pc = "done" /\ status = 400 /\ resolved = None
        /\ detail = [exc |-> "ValueError", text |-> "Invalid address or ENS name",
                     arg |-> req.address]
        /\ ensLookups = 1

LookupRaised ==
    /\ OtherParametersValid /\ ~is_address(req.address, strict)
    /\ ensAnswer.kind = "raise" /\ status = 400

\* requests issued to the provider for direction d
RECURSIVE CallsOf(_, _)
CallsOf(cs, d) ==
    IF cs = << >> THEN 0
    ELSE (IF Head(cs).direction = d THEN 1 ELSE 0) + CallsOf(Tail(cs), d)

\* the loop of direction d has run and ended without a failure
LoopOver(d) ==
    /\ req.direction \in {d, "both"}
    /\ \/ d = "from" /\ dir = "to"
       \/ pc = "done" /\ events # << >> /\ IsComplete(events[Len(events)])

LastPage(d) == served[d][Len(served[d])]

\* C10: with cap 0 a direction's loop ends only on an empty page or a page
\* without a cursor, never on a count; and a non-empty page without a cursor
\* is delivered as a batch, after which the loop ends with no error and no
\* further request for that direction.
UnlimitedStopsOnExhaustion ==
    (OnTransferStream /\ req.max_transfers = 0) =>
        \A d \in {"from", "to"} :
            /\ LoopOver(d) =>
                 /\ served[d] # << >>
                 /\ LastPage(d).items = << >> \/ LastPage(d).pageKey = None
            /\ (served[d] # << >> /\ LastPage(d).items # << >> /\ LastPage(d).pageKey = None) =>
                 /\ BatchesOf(d) # << >>
                 /\ BatchesOf(d)[Len(BatchesOf(d))].data = LastPage(d).items
                 /\ CallsOf(calls, d) = Len(served[d])
                 /\ (dir = d /\ pc = "done") => IsComplete(events[Len(events)])
                 /\ (dir = d /\ pc # "done") => pc \in {"yield", "closed"}

FinalPageWithoutCursor ==
    /\ OnTransferStream /\ req.max_transfers = 0 /\ req.direction = "both"
    /\ dir = "to"
    /\ Len(served.from) = 2 /\ LastPage("from").items # << >>
    /\ LastPage("from").pageKey = None
    /\ Len(BatchesOf("from")) = 2


\* the upstream requests of one direction, in the order they were issued
CallSeq(d) == SelectSeq(calls, LAMBDA c : c.direction = d)

\* the sum of the counts of the first k batches of a sequence
Running(bs, k) == SumCounts(SubSeq(bs, 1, k))

\* C11: with direction "both" the "to" loop starts afresh whatever the "from"
\* loop did: its first request carries no pageKey, the k-th "to" batch has
\* page k and a total that is the sum of the "to" counts alone, and the cap
\* cuts the "to" records on their own, so that up to C "from" plus up to C
\* "to" records are delivered.
ToLoopStartsAfresh ==
    (OnTransferStream /\ req.direction = "both") =>
        /\ CallSeq("to") # << >> => CallSeq("to")[1].pageKey = None
        /\ \A k \in 1 .. Len(BatchesOf("to")) :
              /\ BatchesOf("to")[k].page = k
              /\ BatchesOf("to")[k].total = Running(BatchesOf("to"), k)
        /\ req.max_transfers > 0 =>
              /\ DataOf(BatchesOf("to")) = Take(Upstream("to"), req.max_transfers)
              /\ Len(DataOf(BatchesOf("from"))) + Len(DataOf(BatchesOf("to")))
                    <= 2 * req.max_transfers

FromCappedThenToCapped ==
    /\ OnTransferStream /\ req.direction = "both" /\ req.max_transfers > 0
    /\ Len(BatchesOf("from")) = 2 /\ Len(served.from) = 2
    /\ served.from[1].pageKey # None
    /\ SumCounts(BatchesOf("from")) = req.max_transfers
    /\ Len(BatchesOf("to")) = 2 /\ BatchesOf("to")[1].page = 1
    /\ SumCounts(BatchesOf("to")) = req.max_transfers
    /\ Len(DataOf(BatchesOf("from"))) + Len(DataOf(BatchesOf("to"))) = 2 * req.max_transfers

\* the pages of a direction that hold at least one record
NonEmptyPages(d) == SelectSeq(served[d], LAMBDA pg : pg.items # << >>)

\* C12: stream_transfers emits one batch for every page that is non-empty
\* after the cut to the cap and none for an empty page; the k-th batch of a
\* direction has page k, a count that is the length of its data, and a total
\* that is the sum of the counts of the first k batches of the direction.
OneBatchPerNonEmptyPage ==
    OnTransferStream =>
        \A d \in {"from", "to"} :
            /\ Len(BatchesOf(d)) = Len(NonEmptyPages(d))
            /\ \A k \in 1 .. Len(BatchesOf(d)) :
                  /\ BatchesOf(d)[k].page = k
                  /\ BatchesOf(d)[k].data # << >>
                  /\ BatchesOf(d)[k].data =
                        Truncate(served[d][k].items, req.max_transfers,
                                 Running(BatchesOf(d), k - 1))
                  /\ BatchesOf(d)[k].count = Len(BatchesOf(d)[k].data)
                  /\ BatchesOf(d)[k].total = Running(BatchesOf(d), k)

EmptyPageGivesNoBatch ==
    /\ OnTransferStream /\ req.direction = "both" /\ pc = "done"
    /\ Len(BatchesOf("from")) = 2 /\ BatchesOf("from")[2].total > BatchesOf("from")[2].count
    /\ Len(served.to) = 2 /\ LastPage("to").items = << >>
    /\ Len(BatchesOf("to")) = 1


\* C13: the batch streams are lazy. A stream issues an upstream request only
\* in a step of the generator that the consumer's pull for the next batch
\* drives, one request at a time; while the consumer holds a batch no request
\* is in flight, and neither then nor after the consumer has stopped pulling
\* is a request issued.
LazyStreams ==
    /\ [][(req.endpoint \in Streaming /\ calls' # calls) =>
            /\ pc = "loop" /\ pc' = "await"
            /\ Len(calls') = Len(calls) + 1
            /\ SubSeq(calls', 1, Len(calls)) = calls]_vars
    /\ [][(req.endpoint \in Streaming /\ pc \in {"yield", "closed"}) =>
            calls' = calls]_vars
    /\ []((req.endpoint \in Streaming /\ pc = "yield") => NoCallFailed)

ConsumerStoppedEarly ==
    /\ req.endpoint \in Streaming /\ pc = "closed"
    /\ Len(events) = 1 /\ IsBatch(events[1])
    /\ response.pageKey # None
    /\ Len(calls) = 1


\* the call a request makes, up to the generator's first suspension point
StartOf(r) ==
    IF r.endpoint = "transfers"
    THEN stream_wallet_transfers([Fresh EXCEPT !.req = r], NoRecord, FALSE)
    ELSE stream_wallet_nfts([Fresh EXCEPT !.req = r], NoRecord, FALSE)

\* the stream run on its own from state s, answered with the pages of target
\* in order, as far as those pages go
RECURSIVE RunAlone(_, _)
RunAlone(s, target) ==
    IF s.pc = "loop" THEN RunAlone(FetchStep(s), target)
    ELSE IF s.pc = "yield" THEN RunAlone(ResumeStep(s), target)
    ELSE IF s.pc = "await" /\ Len(s.served[s.dir]) < Len(target[s.dir])
    THEN RunAlone(PageStep(s, target[s.dir][Len(s.served[s.dir]) + 1]), target)
    ELSE s

BatchEvents(es) == SelectSeq(es, IsBatch)
FirstOf(cs, d) == SelectSeq(cs, LAMBDA c : c.direction = d)[1]

\* C14: every stream call owns its cursor, page counter and running total.
\* Under any interleaving of two streams consumed side by side on the shared
\* service instance, each stream delivers the batches it delivers when run
\* alone on the same pages, a finished stream the same events, and every
\* call, a later call of the same consumer included, starts each of its
\* loops with no cursor and numbers its first batch 1.
StreamsIndependent ==
    \A i \in StreamIds :
        streams[i].req.endpoint \in Streaming =>
            LET me == streams[i]
                alone == RunAlone(StartOf(me.req), me.served)
            IN  /\ BatchEvents(me.events) = BatchEvents(alone.events)
                /\ me.pc = "done" => me.events = alone.events
                /\ \A d \in DOMAIN NoPages :
                      (\E n \in 1 .. Len(me.calls) : me.calls[n].direction = d) =>
                          FirstOf(me.calls, d).pageKey = None
                /\ BatchEvents(me.events) # << >> =>
                      BatchEvents(me.events)[1].json.page = 1

StreamsInterleaved ==
    /\ streams[1].req.endpoint = "transfers" /\ streams[2].req.endpoint = "transfers"
    /\ streams[1].pc = "yield" /\ streams[2].pc = "yield"
    /\ streams[1].req.direction = "both" /\ streams[1].dir = "to"
    /\ streams[1].page = 2 /\ streams[2].page = 1
    /\ streams[2].dir = "from"
    /\ Len(streams[1].events) > Len(streams[2].events)


\* the error details the provider may send
ProviderDetails == { f.error : f \in ProviderFailures }

\* the message m, or a message it wraps, carries the text x
RECURSIVE Carries(_, _)
Carries(m, x) ==
    \/ "error" \in DOMAIN m /\ m.error = x
    \/ "body" \in DOMAIN m /\ m.body = x
    \/ "arg" \in DOMAIN m /\ Carries(m.arg, x)

\* C15: every upstream call (asset transfers, NFT ownership, token balances)
\* that fails, by an in-band error or by a transport status other than
\* success, surfaces as an upstream error whose message includes the
\* provider's own error detail.
UpstreamErrorsCarryDetail ==
    req.endpoint \in {"transfers", "nfts", "tokens"} =>
        /\ \A i \in 1 .. Len(events) :
              IsError(events[i]) =>
                  \E x \in ProviderDetails : Carries(events[i].json.message, x)
        /\ status = 500 => \E x \in ProviderDetails : Carries(detail, x)


\* the cursors presented by the requests of direction d, in order
RECURSIVE KeysOf(_)
KeysOf(cs) == IF cs = << >> THEN << >> ELSE << Head(cs).pageKey >> \o KeysOf(Tail(cs))

\* C16: the wallet service does not retry. Every page fetch is one upstream
\* request: the requests of a direction present pairwise different cursors,
\* at most one request of a stream is unanswered, and it is the request in
\* flight or the one that failed; a step in which a request fails issues no
\* request, and none is issued after it.
NoRetry ==
    /\ [](\A d \in DOMAIN NoPages :
             \A i, j \in 1 .. Len(CallSeq(d)) :
                 i # j => CallSeq(d)[i].pageKey # CallSeq(d)[j].pageKey)
    /\ [](req.endpoint \in Streaming =>
             \A d \in DOMAIN NoPages :
                 /\ Len(CallSeq(d)) - Len(served[d]) \in {0, 1}
                 /\ Len(CallSeq(d)) > Len(served[d]) =>
                       /\ dir = d
                       /\ pc \in {"await", "closed"} \/
                          (pc = "done" /\ events # << >> /\ IsError(events[Len(events)])))
    /\ [][UpstreamFailsInStream => calls' = calls]_vars
    /\ [][(req.endpoint \in Streaming /\ pc = "done") => calls' = calls]_vars

FailedOnSecondPage ==
    /\ req.endpoint \in Streaming /\ pc = "done"
    /\ events # << >> /\ IsError(events[Len(events)])
    /\ Len(calls) = 2 /\ Len(served[dir]) = 1
    /\ KeysOf(calls) = << None, served[dir][1].pageKey >>


\* C17: every upstream transfer request of one stream_transfers call, in
\* both directions and on every page, carries the same category list:
\* external, internal and erc20 always, erc721 and erc1155 exactly when
\* include_nft is true.
SameCategoriesThroughout ==
    OnTransferStream =>
        \A i \in 1 .. Len(calls) :
            /\ calls[i].api = "getAssetTransfers"
            /\ calls[i].category =
                  IF req.include_nft
                  THEN << "external", "internal", "erc20", "erc721", "erc1155" >>
                  ELSE << "external", "internal", "erc20" >>

RequestsWithoutNftCategories ==
    /\ OnTransferStream /\ ~req.include_nft /\ req.direction = "both"
    /\ Len(CallSeq("from")) = 2 /\ Len(CallSeq("to")) = 2


OnNftStream == req.endpoint = "nfts" /\ status = 200
NftBatches == Jsons(SelectSeq(events, IsBatch))

NftScenarioRun ==
    /\ script = "scenario" /\ OnNftStream
    /\ pc = "done" /\ NoCallFailed

\* C18: in stream_nfts the k-th batch has page k, a count that is the number
\* of items of the k-th page, a total that is the sum of the counts of the
\* first k pages, and the totalCount the provider reported with that page.
\* For pages of 100, 100 and 50 with a provider totalCount of 250 the batches
\* carry the totals 100, 200, 250 and totalCount 250 each.
NftBatchFields ==
    /\ OnNftStream =>
          /\ Len(NftBatches) <= Len(served.nft)
          /\ \A k \in 1 .. Len(NftBatches) :
                /\ NftBatches[k].page = k
                /\ NftBatches[k].data = served.nft[k].items
                /\ NftBatches[k].count = Len(served.nft[k].items)
                /\ NftBatches[k].total = Len(Flatten(SubSeq(served.nft, 1, k)))
                /\ NftBatches[k].totalCount = served.nft[k].totalCount
    /\ NftScenarioRun =>
          /\ Len(events) = 4
          /\ [k \in 1 .. 3 |-> << NftBatches[k].page, NftBatches[k].count,
                                   NftBatches[k].total, NftBatches[k].totalCount >>] =
               << << 1, 100, 100, 250 >>, << 2, 100, 200, 250 >>, << 3, 50, 250, 250 >> >>
          /\ IsComplete(events[4])

NftScenarioCompleted ==
    /\ NftScenarioRun
    /\ Len(NftBatches) = 3 /\ NftBatches[3].total = 250


\* the page ends the pagination: it is empty or carries no cursor
IsFinalPage(pg) == pg.items = << >> \/ pg.pageKey = None

\* C19: stream_nfts ends its pagination as the transfer stream does. The
\* first request has no cursor and every later one presents the cursor of
\* the page before it; after the first page that is empty or carries no
\* cursor nothing more is requested; and a stream that ends without a
\* failure has ended on such a page, whatever the number of items delivered.
NftPagination ==
    OnNftStream =>
        /\ \A k \in 1 .. Len(CallSeq("nft")) :
              CallSeq("nft")[k].pageKey =
                  IF k = 1 THEN None ELSE served.nft[k - 1].pageKey
        /\ \A k \in 1 .. Len(served.nft) - 1 : ~IsFinalPage(served.nft[k])
        /\ (served.nft # << >> /\ IsFinalPage(LastPage("nft"))) =>
              /\ Len(CallSeq("nft")) = Len(served.nft)
              /\ pc \in {"yield", "done", "closed"}
        /\ (pc = "done" /\ NoCallFailed) =>
              /\ served.nft # << >>
              /\ IsFinalPage(LastPage("nft"))
              /\ IsComplete(events[Len(events)])
        /\ total_count = Len(Upstream("nft"))

NftsBeyondTheCap ==
    /\ OnNftStream /\ pc = "done" /\ NoCallFailed
    /\ script = "any"
    /\ Len(served.nft) = MaxPages
    /\ CallSeq("nft")[MaxPages].pageKey # None
    /\ total_count > MaxCap


\* C20: in the combined-data request the transfer aggregation and the NFT
\* aggregation each stop after a fixed maximum number of batches of their
\* own, whatever max_transfers and the page size are, so that the number of
\* upstream requests of one request is bounded for every upstream behaviour.
\* The provider here holds up to MaxPages pages per stream; a handler with a
\* batch cap below that stops before the provider's last page.
FullAggregationsCapped ==
    (req.endpoint = "full" /\ script = "any") =>
        \A d \in DOMAIN NoPages : Len(CallSeq(d)) < MaxPages


OnFull == req.endpoint = "full"

\* the api of the upstream request issued last
LastApi == calls[Len(calls)].api

\* C21: in the combined-data request a failure of a mandatory branch
\* (metadata, transfer aggregation, token balances) aborts the whole request:
\* the response is an error, no combined object is returned, partial results
\* included, and nothing more is requested upstream.
MandatoryFailureAborts ==
    /\ [][(OnFull /\ (MetadataFail \/ TransfersFail \/ TokensFail)) =>
            /\ status' = 500 /\ body' = None /\ pc' = "done"
            /\ calls' = calls]_vars
    /\ []((OnFull /\ status # 200) => body = None)
    /\ []((OnFull /\ status \in {400, 500}) => pc = "done")

TokensFailedAfterTransfers ==
    /\ OnFull /\ pc = "done" /\ status = 500 /\ body = None
    /\ all_transfers # << >>
    /\ LastApi = "tokenBalances"


\* the combined request asks for no NFT data: nothing is requested from the
\* NFT API and the combined object is returned with nfts absent
NftAbsenceIsHarmless ==
    (OnFull /\ ~req.include_nft) =>
        /\ CallSeq("nft") = << >>
        /\ (pc = "done" /\ calls # << >> /\ LastApi = "tokenBalances" /\ status = 200) =>
              ("nfts" \in DOMAIN body /\ body.nfts = None)

NoNftReturned ==
    /\ OnFull /\ ~req.include_nft /\ pc = "done" /\ status = 200
    /\ body.nfts = None /\ body.transfers # << >>

\* C22: in the combined-data request the NFT branch is optional. When NFT
\* data is not requested no NFT upstream request is issued and the combined
\* object is returned with nfts absent; and a failure of the NFT branch alone
\* does not fail the request: no error response follows a failed NFT request.
NftBranchOptional ==
    /\ NftAbsenceIsHarmless
    /\ (OnFull /\ pc = "done" /\ calls # << >> /\ LastApi = "getNFTsForOwner") =>
          status = 200


\* C25: in stream_transfers with a cap C > 0 the cap is tested before each
\* fetch: every request of a direction is issued while the direction's
\* running total is below C, so once the total has reached C nothing more is
\* requested for that direction, also when the total reaches C exactly at
\* the end of a page that came with a cursor.
CapTestedBeforeFetch ==
    /\ [](( OnTransferStream /\ req.max_transfers > 0) =>
             \A d \in {"from", "to"} :
                 /\ \A k \in 1 .. Len(CallSeq(d)) :
                       /\ k - 1 <= Len(BatchesOf(d))
                       /\ Running(BatchesOf(d), k - 1) < req.max_transfers
                 /\ SumCounts(BatchesOf(d)) = req.max_transfers =>
                       Len(CallSeq(d)) = Len(served[d]))
    /\ [][(OnTransferStream /\ req.max_transfers > 0 /\ calls' # calls) =>
            Total(Cur) < req.max_transfers]_vars

CapReachedAtPageEnd ==
    /\ OnTransferStream /\ req.max_transfers > 0 /\ req.direction = "both"
    /\ dir = "to" /\ served.from # << >>
    /\ LastPage("from").pageKey # None
    /\ Len(Upstream("from")) = req.max_transfers
    /\ SumCounts(BatchesOf("from")) = req.max_transfers
    /\ Len(CallSeq("from")) = Len(served.from)
    /\ CallSeq("to") # << >>


\* C26: stream_transfers terminates. Against a provider that in every
\* requested direction comes to an empty page or a page without a cursor the
\* batch sequence ends; and with a cap C > 0 a direction is asked at most C
\* times, whatever the provider returns.
TransfersTerminate ==
    /\ OnTransferStream ~> pc \in {"done", "closed"}
    /\ []((OnTransferStream /\ req.max_transfers > 0) =>
             \A d \in {"from", "to"} : Len(CallSeq(d)) <= req.max_transfers)

CapEndsEndlessCursor ==
    /\ OnTransferStream /\ req.max_transfers > 0 /\ pc = "done"
    /\ events # << >> /\ IsComplete(events[Len(events)])
    /\ \A d \in {"from", "to"} :
          /\ Len(CallSeq(d)) = req.max_transfers
          /\ \A k \in 1 .. Len(served[d]) :
                served[d][k].items # << >> /\ served[d][k].pageKey # None


\* the "from" loop of a stream over both directions has gone through a page
\* that ended it (an empty page, a page without a cursor)
FromExhausted ==
    /\ OnTransferStream /\ req.direction = "both"
    /\ served.from # << >>
    /\ Len(CallSeq("from")) = Len(served.from)
    /\ IsFinalPage(LastPage("from"))

\* the "from" loop has met the cap; its next pass ends it
FromCapped ==
    /\ OnTransferStream /\ req.direction = "both"
    /\ Len(CallSeq("from")) = Len(served.from)
    /\ req.max_transfers > 0 /\ SumCounts(BatchesOf("from")) >= req.max_transfers

\* a step in which a request of the "from" loop fails
FromFails == dir = "from" /\ TransfersFail

\* C27: with direction "both", a "from" direction that ends without an
\* error, also on an empty first page that gives no batch, is followed by the
\* "to" loop; an upstream failure inside the "from" loop ends the stream,
\* with no "to" request and no "to" batch after it.
ToFollowsFromUnlessFailed ==
    /\ []((FromExhausted /\ pc \notin {"yield", "closed"}) =>
             (dir = "to" /\ (pc = "loop" \/ CallSeq("to") # << >>)))
    /\ []((FromCapped /\ pc \notin {"yield", "closed"}) =>
             \/ dir = "to" /\ (pc = "loop" \/ CallSeq("to") # << >>)
             \/ dir = "from" /\ pc = "loop")
    /\ [][(FromCapped /\ dir = "from" /\ pc = "loop" /\ TransfersFetch) =>
            dir' = "to"]_vars
    /\ [][(OnTransferStream /\ FromFails) =>
            /\ pc' = "done" /\ IsError(events'[Len(events')])
            /\ CallSeq("to") = << >> /\ calls' = calls
            /\ BatchesOf("to") = << >> /\ dir' = "from"]_vars
    /\ []((OnTransferStream /\ pc = "done" /\ dir = "from"
              /\ req.direction = "both") =>
             /\ IsError(events[Len(events)])
             /\ CallSeq("to") = << >> /\ BatchesOf("to") = << >>)

ToAfterEmptyFrom ==
    /\ OnTransferStream /\ req.direction = "both"
    /\ Len(served.from) = 1 /\ served.from[1].items = << >>
    /\ BatchesOf("from") = << >>
    /\ Len(BatchesOf("to")) = 1


\* C28: stream_nfts emits a batch for every page it fetches successfully, an
\* empty page included (count 0): the batches are as many as the pages
\* served, a stream that ends without a failure has emitted at least one
\* batch, and only the last batch can be empty. stream_transfers, by
\* contrast, never emits a batch of count 0.
NftBatchForEveryPage ==
    /\ OnNftStream =>
          /\ Len(NftBatches) = Len(served.nft)
          /\ \A k \in 1 .. Len(NftBatches) :
                /\ NftBatches[k].count = Len(served.nft[k].items)
                /\ k < Len(NftBatches) => NftBatches[k].count > 0
                /\ NftBatches[k].count = 0 =>
                      /\ Len(CallSeq("nft")) = k
                      /\ pc \in {"yield", "done", "closed"}
          /\ (pc = "done" /\ NoCallFailed) => Len(NftBatches) >= 1
    /\ OnTransferStream =>
          \A d \in {"from", "to"} :
              /\ \A k \in 1 .. Len(BatchesOf(d)) : BatchesOf(d)[k].count > 0
              /\ Len(BatchesOf(d)) <= Len(served[d])

NftStreamEndedOnEmptyBatch ==
    /\ OnNftStream /\ pc = "done" /\ NoCallFailed
    /\ Len(served.nft) = 2 /\ served.nft[2].items = << >>
    /\ Len(NftBatches) = 2
    /\ NftBatches[1].count > 0 /\ NftBatches[2].count = 0


(* ------------------- the statistics request on its own ------------------ *)
Account(n) == [kind |-> "hex", acct |-> n, prefix |-> TRUE, casing |-> "lower"]

Transfer(c, f, to, v) == [category |-> c, from |-> Account(f), to |-> Account(to), value |-> v]

\* transfer records a client may post: native transfers into and out of
\* account 1, one whose value is no number, a token transfer, a transfer of
\* account 1 to itself, and a transfer out of account 2
TransferPool ==
    { Transfer("external", 3, 1, "5"), Transfer("external", 1, 3, "2"),
      Transfer("external", 3, 1, "abc"), Transfer("erc20", 3, 1, "5"),
      Transfer("external", 1, 1, "1"), Transfer("external", 2, 3, "1") }

RECURSIVE SeqsUpTo(_, _)
SeqsUpTo(S, n) ==
    IF n = 0 THEN { << >> }
    ELSE LET shorter == SeqsUpTo(S, n - 1)
         IN  shorter \cup { Append(q, x) : q \in shorter, x \in S }

CalculateDerivedStats ==
    /\ Ready
    /\ \E a \in Inputs, ts \in SeqsUpTo(TransferPool, MaxTransfers) :
         \E st \in Builds(a) : \E e \in Lookups(a, st) :
           Arrive([st |-> st, e |-> e] @@
                  calculate_derived_stats(
                      [Request("stats", a, "both", 0, TRUE, PageSizeMax)
                           EXCEPT !.transfers = ts], e, st))

InitStats == Quiescent /\ script = "any"
NextStats == CalculateDerivedStats
StatsSpec == InitStats /\ [][NextStats]_vars

OnStats == req.endpoint = "stats"

\* the posted transfers that are native, carry value v and name the resolved
\* account as receiver (as sender)
Into(v) ==
    { i \in 1 .. Len(transfers) :
        /\ transfers[i].category = "external" /\ transfers[i].value = v
        /\ transfers[i].to.acct = resolved.acct }
OutOf(v) ==
    { i \in 1 .. Len(transfers) :
        /\ transfers[i].category = "external" /\ transfers[i].value = v
        /\ transfers[i].from.acct = resolved.acct }
Worth(S(_)) == Cardinality(S("1")) + 2 * Cardinality(S("2")) + 5 * Cardinality(S("5"))

\* C23: for any transfer sequence get_derived_stats reports as total-in the
\* sum of the values of the native-currency transfers whose receiver is the
\* address, as total-out the sum of those whose sender is the address, the
\* comparison ignoring case, and as net total-in minus total-out; with
\* total-in 5 and total-out 2 the net is 3.
NetIsInMinusOut ==
    (OnStats /\ status = 200) =>
        /\ body.totalIn = Worth(Into)
        /\ body.totalOut = Worth(OutOf)
        /\ body.net = body.totalIn - body.totalOut
        /\ (body.totalIn = 5 /\ body.totalOut = 2) => body.net = 3

FiveInTwoOut ==
    /\ OnStats /\ status = 200
    /\ resolved.casing = "ck"
    /\ \E i \in 1 .. Len(transfers) :
          transfers[i].to.acct = resolved.acct /\ transfers[i].to # resolved
    /\ body.totalIn = 5 /\ body.totalOut = 2 /\ body.net = 3

ParsesAsNumber(t) == t.value \in {"1", "2", "5"}

\* C24: get_derived_stats does not fail on a transfer whose value is not
\* numeric: the request is answered, the totals are those of the sequence
\* without the transfers whose value is not numeric, and totalTransfers is
\* the length of the whole sequence.
NonNumericValueSkipped ==
    OnStats =>
        /\ status # 500
        /\ status = 200 =>
              LET rest == get_derived_stats(resolved, SelectSeq(transfers, ParsesAsNumber))
              IN  /\ body.totalIn = rest.totalIn
                  /\ body.totalOut = rest.totalOut
                  /\ body.net = rest.net
                  /\ body.totalTransfers = Len(transfers)

SkippedButCounted ==
    /\ OnStats /\ status = 200
    /\ Len(transfers) = 3
    /\ transfers[1] = transfers[3]
    /\ transfers[2].category = "external" /\ ~ParsesAsNumber(transfers[2])
    /\ body.totalIn = 10 /\ body.totalTransfers = 3


(* ------------------- NLQueryService.answer_user_question ---------------- *)
walletVars ==
    << req, pc, status, detail, resolved, ensLookups, dir, page_key, page,
       from_total, to_total, total_count, response, transfers, events,
       all_transfers, all_nfts, body, calls, served, script, strict, ensAnswer,
       streams >>

Questions ==
    { "List all verified client companies.",
      "How many NFTs does the wallet own in total?",
      "List the top 5 transactions by block number." }

\* what the model answers to the SQL prompt: a statement, bare or in a code fence
LlmReplies == { [fenced |-> f, sql |-> q] : f \in BOOLEAN, q \in {"SELECT 1", "SELECT a.id, b.id"} }

\* lines 87-88: the content without the code fences
StripFences(reply) == reply.sql

\* what the database returns for a statement
Rows(sql_query) ==
    IF sql_query = "SELECT a.id, b.id"
    THEN {"rows with duplicate columns"}
    ELSE {"rows", "no rows", "affected_rows"}

LlmFailures == {"model unavailable", "quota exceeded"}
DbFailures == {"syntax error", "connection refused"}
Answers == {"There is 1 verified client company: Acme Corp."}

\* an exception of a step leaves the function uncaught
Reraised(n, e) == [n EXCEPT !.pc = "returned", !.raised = TRUE]

\* lines 203-211: "except Exception as e" returns the failure record
Failed(n, e) ==
    [n EXCEPT !.pc = "returned",
              !.result = [NoResult EXCEPT !.question = n.question, !.error = e]]

\* lines 175-177: step 1 is called
StartQuery(q) ==
    [NoQuery EXCEPT !.pc = "generate", !.question = q,
                    !.steps = << "generate_sql_from_nl" >>]

\* lines 177-180: step 1 has returned, step 2 is called
GeneratedSql(n, reply) ==
    [n EXCEPT !.sql_query = StripFences(reply), !.pc = "execute",
              !.steps = Append(@, "execute_generated_sql")]

\* lines 127-129: the database error is wrapped
ExecutionError(e) == [text |-> "Database query execution failed", arg |-> e]

\* lines 180-184: step 2 has returned, step 3 is called
Executed(n, rows) ==
    [n EXCEPT !.sql_result = rows, !.pc = "rephrase",
              !.steps = Append(@, "rephrase_answer")]

\* lines 187-201: the rows are converted and the success record is returned;
\* DataFrame.to_dict(orient='records') raises on duplicate column names
Rephrased(n, a) ==
    IF n.sql_result = "rows with duplicate columns"
    THEN Failed([n EXCEPT !.answer = a],
                [text |-> "DataFrame columns must be unique", arg |-> Null])
    ELSE [n EXCEPT !.answer = a, !.pc = "returned",
                   !.result = [success |-> TRUE, question |-> n.question,
                               sql_query |-> n.sql_query, result |-> n.sql_result,
                               answer |-> a, error |-> NoError]]

\* query_routes.py, lines 72-76
Responded(n) ==
    IF n.raised
    THEN [n EXCEPT !.pc = "responded", !.status = 500]
    ELSE [n EXCEPT !.pc = "responded", !.status = 200]

StepQuery(n) == nl' = n /\ UNCHANGED << walletVars, gen >>

ExecuteNaturalLanguageQuery ==
    /\ nl.pc = "idle"
    /\ \E q \in Questions : StepQuery(StartQuery(q))

SqlGenerated ==
    /\ nl.pc = "generate"
    /\ \E reply \in LlmReplies : StepQuery(GeneratedSql(nl, reply))

SqlGenerationFails ==
    /\ nl.pc = "generate"
    /\ \E e \in LlmFailures : StepQuery(Failed(nl, [text |-> e, arg |-> Null]))

SqlExecuted ==
    /\ nl.pc = "execute"
    /\ \E rows \in Rows(nl.sql_query) : StepQuery(Executed(nl, rows))

SqlExecutionFails ==
    /\ nl.pc = "execute"
    /\ \E e \in DbFailures : StepQuery(Failed(nl, ExecutionError(e)))

AnswerRephrased ==
    /\ nl.pc = "rephrase"
    /\ \E a \in Answers : StepQuery(Rephrased(nl, a))

RephrasingFails ==
    /\ nl.pc = "rephrase"
    /\ \E e \in LlmFailures : StepQuery(Failed(nl, [text |-> e, arg |-> Null]))

QueryResponds ==
    /\ nl.pc = "returned"
    /\ StepQuery(Responded(nl))

InitQuery == Quiescent /\ script = "any"
NextQuery ==
    \/ ExecuteNaturalLanguageQuery
    \/ SqlGenerated \/ SqlGenerationFails
    \/ SqlExecuted \/ SqlExecutionFails
    \/ AnswerRephrased \/ RephrasingFails
    \/ QueryResponds
QuerySpec == InitQuery /\ [][NextQuery]_vars

PipelineOrder == << "generate_sql_from_nl", "execute_generated_sql", "rephrase_answer" >>
StepFails == SqlGenerationFails \/ SqlExecutionFails \/ RephrasingFails
Returned == nl.pc \in {"returned", "responded"}

\* C29: answer_user_question runs generate SQL, execute SQL, rephrase answer
\* in this order, each step starting only after the one before it has
\* returned its value; it never raises: a failure of a step is answered with
\* a record of success = false, the question and the error text, and no
\* later step is run.
PipelineNeverRaises ==
    /\ [](/\ nl.steps = SubSeq(PipelineOrder, 1, Len(nl.steps))
          /\ Len(nl.steps) >= 2 => nl.sql_query # Null
          /\ Len(nl.steps) = 3 => nl.sql_result # Null
          /\ ~nl.raised /\ nl.status # 500)
    /\ [][StepFails =>
            /\ nl'.pc = "returned"
            /\ ~nl'.result.success
            /\ nl'.result.question = nl.question
            /\ nl'.result.error.text # Null
            /\ nl'.steps = nl.steps]_vars
    /\ [][Returned => nl'.steps = nl.steps]_vars
    /\ []((Returned /\ ~nl.result.success) =>
             /\ nl.result.question = nl.question
             /\ nl.result.error # NoError
             /\ nl.result.answer = Null)

ExecutionFailureReported ==
    /\ nl.pc = "responded" /\ nl.status = 200
    /\ nl.steps = << "generate_sql_from_nl", "execute_generated_sql" >>
    /\ ~nl.result.success
    /\ nl.result.error = ExecutionError("syntax error")
    /\ nl.sql_result = Null /\ nl.answer = Null


(* ---------------- lib/nl_to_sql.generate_sql_from_question -------------- *)
\* what sql_query_chain.invoke may raise.  The name Timeout is imported from
\* the openai package: an exception class in some builds of the package, the
\* timeout configuration class of the HTTP client (never raised) in others
Retriable == {"APIError", "Timeout"}
ChainExceptions(timeout_is_exception) ==
    IF timeout_is_exception
    THEN {"APIError", "Timeout", "ValueError"}
    ELSE {"APIError", "ValueError"}

FixedError == "Error: Could not generate SQL query due to an unexpected issue."

\* line 47: strip, drop the code fences, strip
Clean(reply) == reply.sql

\* line 42 and 45: the decorated function is called, the chain is invoked
Attempt(g) == [g EXCEPT !.attempt_number = @ + 1, !.pc = "invoke"]

\* lines 46-47
ChainReturned(g, reply) ==
    [g EXCEPT !.outcomes = Append(@, "ok"), !.pc = "returned", !.value = Clean(reply)]

\* the retry wrapper, line 37-41: an exception that is not of the listed
\* types leaves the call; a listed one is retried after the wait unless the
\* attempt was the last, and then RetryError leaves the call
Retrying(g, e) ==
    IF e \notin Retriable
    THEN [g EXCEPT !.pc = "raised", !.exc = e]
    ELSE IF g.attempt_number >= MaxAttempts
    THEN [g EXCEPT !.pc = "raised", !.exc = "RetryError"]
    ELSE [g EXCEPT !.pc = "wait"]

\* lines 49-56: the handlers of the function body.  Matching an exception
\* against "except (APIError, Timeout)" raises TypeError when Timeout is not
\* an exception class
ChainRaised(g, e) ==
    LET g1 == [g EXCEPT !.outcomes = Append(@, e)]
    IN  IF ~g.timeout_is_exception
        THEN Retrying(g1, "TypeError")
        ELSE IF e \in Retriable
        THEN Retrying(g1, e)
        ELSE [g1 EXCEPT !.pc = "returned", !.value = FixedError]

\* wait_fixed(2), then the next attempt
Waited(g) == Attempt([g EXCEPT !.slept = @ + WaitSeconds])

StepGen(g) == gen' = g /\ UNCHANGED << walletVars, nl >>

GenerateSqlFromQuestion ==
    /\ gen.pc = "idle"
    /\ \E q \in Questions, b \in BOOLEAN :
         StepGen(Attempt([NoGen EXCEPT !.question = q, !.timeout_is_exception = b]))

ChainReturns ==
    /\ gen.pc = "invoke"
    /\ \E reply \in LlmReplies : StepGen(ChainReturned(gen, reply))

ChainRaises ==
    /\ gen.pc = "invoke"
    /\ \E e \in ChainExceptions(gen.timeout_is_exception) : StepGen(ChainRaised(gen, e))

WaitElapsed ==
    /\ gen.pc = "wait"
    /\ StepGen(Waited(gen))

InitGen == Quiescent /\ script = "any"
NextGen == GenerateSqlFromQuestion \/ ChainReturns \/ ChainRaises \/ WaitElapsed
SqlGenSpec == InitGen /\ [][NextGen]_vars

GenEnded == gen.pc \in {"returned", "raised"}

\* C30: generate_sql_from_question calls the SQL chain at most 3 times per
\* question; an attempt is followed by another only when it ended in an API
\* error or a timeout; and when the chain raises any other exception the
\* call makes no further attempt and returns the fixed error string instead
\* of raising.
AtMostThreeAttempts ==
    /\ gen.attempt_number <= 3
    /\ \A k \in 1 .. Len(gen.outcomes) :
          k < gen.attempt_number => gen.outcomes[k] \in {"APIError", "Timeout"}
    /\ (GenEnded /\ gen.outcomes[Len(gen.outcomes)] \notin {"ok", "APIError", "Timeout"}) =>
          /\ gen.pc = "returned"
          /\ gen.value = FixedError
          /\ gen.attempt_number = Len(gen.outcomes)

====
